---- MODULE Spec2Model ----
(***************************************************************************)
(* Model of the spin pipeline of TwitchBeanSpinner (src/main.py): the      *)
(* asyncio spin queue, the single spin_processor task, the registry of     *)
(* WebSocket connections (`clients`) and the per-connection handler        *)
(* ws_spin, with the two trigger sources (the /eventsub webhook and the    *)
(* chat command callback).                                                 *)
(***************************************************************************)
EXTENDS Integers, Sequences, FiniteSets, TLC

\* ---- bounds of the model ------------------------------------------------
MaxConns == 2
MaxTriggers == 3
MaxSendDelay == 1
MaxHandles == 3
MaxRegCalls == 3
MaxListeners == 2

\* ---- program constants --------------------------------------------------
BIT_SPIN_AMOUNT == 555
SleepSeconds == 9

Conns == 1..MaxConns
Handles == 1..MaxHandles
BitsValues == {BIT_SPIN_AMOUNT - 1, BIT_SPIN_AMOUNT, BIT_SPIN_AMOUNT + 1}
TimeCap == MaxSendDelay + SleepSeconds

VARIABLES
    clients,      \* the registry: set of registered connection handles
    queue,        \* spin_queue: sequence of triggers, oldest first
    unfinished,   \* spin_queue._unfinished_tasks (put: +1, task_done: -1)
    submitted,    \* number of triggers put so far (also the last trigger id)
    getterWaiting, \* the processor is suspended in spin_queue.get()
    hpc,          \* position of each connection's ws_spin handler
    writable,     \* whether the transport of each connection can be written
    lastExit,     \* how the last handler to end left its protected block
    removeCount,  \* number of clients.remove calls made for each handle
    removeErr,    \* a clients.remove call raised KeyError
    pc,           \* position of spin_processor
    snapshot,     \* the connections the current spin's sends were built for
    pending,      \* sends of the current spin that have not returned
    spinGot,      \* "spin" messages delivered to each connection in this spin
    sendFailed,   \* connections whose "spin" send raised in this spin
    lateJoin,     \* connections registered after the current snapshot
    served,       \* ids of the triggers taken by the processor, in order
    spinsDone,    \* number of completed spins (task_done calls)
    sleepLeft,    \* time left of the running asyncio.sleep(9)
    sinceTake,    \* time since the last take (saturates at TimeCap)
    reg,          \* registry algebra: the set the operations are applied to
    regBefore,    \* registry algebra: the set before the last operation
    regOp,        \* registry algebra: the last operation ("add", "remove")
    regHandle,    \* registry algebra: the handle of the last operation
    regErr,       \* registry algebra: the last operation raised KeyError
    regCalls,     \* registry algebra: number of operations applied
    listeners,    \* number of chat listeners started and running
    chatCmd,      \* the last chat command: sender, listeners that heard it,
                  \* listeners still to run their callback, triggers appended
    lastEvent     \* the last webhook request and the triggers it appended

vars == <<clients, queue, unfinished, submitted, getterWaiting, hpc, writable, lastExit,
          removeCount, removeErr, pc, snapshot, pending, spinGot,
          sendFailed, lateJoin, served, spinsDone, sleepLeft, sinceTake,
          reg, regBefore, regOp, regHandle, regErr, regCalls,
          listeners, chatCmd, lastEvent>>

connVars == <<clients, hpc, writable, lastExit, removeCount, removeErr, lateJoin>>
queueVars == <<queue, unfinished, submitted, getterWaiting>>
procVars == <<pc, snapshot, pending, spinGot, sendFailed, served, spinsDone>>
timeVars == <<sleepLeft, sinceTake>>
regVars == <<reg, regBefore, regOp, regHandle, regErr, regCalls>>
srcVars == <<listeners, chatCmd, lastEvent>>
pipelineVars == <<connVars, queueVars, procVars, timeVars, srcVars>>

Min(a, b) == IF a < b THEN a ELSE b
Max(a, b) == IF a > b THEN a ELSE b

\* ---- the registry (a Python set) -----------------------------------------
\* set.add
add(R, c) == R \cup {c}

\* set.remove: raises KeyError when the element is absent
remove(R, c) ==
    IF c \in R THEN [set |-> R \ {c}, err |-> FALSE]
               ELSE [set |-> R, err |-> TRUE]

\* ---- the queue (asyncio.Queue, unbounded) --------------------------------
\* a queue of one slot whose put gives up when the slot is taken
put_DropWhenBusy(q, t) == IF Len(q) >= 1 THEN q ELSE Append(q, t)

put(q, t) == Append(q, t)

NoCmd == [mod |-> FALSE, isBroadcaster |-> FALSE, heard |-> 0, left |-> 0,
          enq |-> 0]
NoEvent == [kind |-> "none", signed |-> FALSE, challenge |-> FALSE,
            stype |-> "none", bits |-> 0, enq |-> 0]

PipelineInit ==
    /\ clients = {}
    /\ queue = <<>>
    /\ unfinished = 0
    /\ submitted = 0
    /\ getterWaiting = TRUE
    /\ hpc = [c \in Conns |-> "new"]
    /\ writable = [c \in Conns |-> FALSE]
    /\ lastExit = [conn |-> 0, path |-> "none"]
    /\ removeCount = [c \in Conns |-> 0]
    /\ removeErr = FALSE
    /\ pc = "idle"
    /\ snapshot = {}
    /\ pending = {}
    /\ spinGot = [c \in Conns |-> 0]
    /\ sendFailed = {}
    /\ lateJoin = {}
    /\ served = <<>>
    /\ spinsDone = 0
    /\ sleepLeft = 0
    /\ sinceTake = 0

\* the state after startup: lifespan has created the spin_processor task
Init ==
    /\ PipelineInit
    /\ reg = {}
    /\ regBefore = {}
    /\ regOp = "none"
    /\ regHandle = 0
    /\ regErr = FALSE
    /\ regCalls = 0
    /\ listeners = 1
    /\ chatCmd = NoCmd
    /\ lastEvent = NoEvent

\* ---- trigger sources -----------------------------------------------------
\* spin_queue.put("spin"); the tokens are all alike, so each is given the
\* number of its submission and whether the processor was busy with a spin
\* at the time, to observe what becomes of it
\* its wake-up of a suspended getter resolves the getter's future, which
\* schedules the processor with call_soon on the server's loop: from that
\* loop's own thread the processor runs next; from another thread the loop
\* is not woken, and the processor may stay suspended until the loop runs
\* for another reason
WakeOutcomes(onLoop, w) == IF onLoop THEN {FALSE} ELSE {FALSE, w}

Submit(onLoop) ==
    /\ queue' = put(queue, [id |-> submitted + 1,
                            busy |-> pc \in {"broadcast", "cooldown"}])
    /\ unfinished' = unfinished + 1
    /\ submitted' = submitted + 1
    /\ getterWaiting' \in WakeOutcomes(onLoop, getterWaiting)

\* bits == BIT_SPIN_AMOUNT, read as "at least"
CheerValid_AtLeast(bits) == bits >= BIT_SPIN_AMOUNT

\* if bits == BIT_SPIN_AMOUNT
CheerValid(bits) == bits = BIT_SPIN_AMOUNT

\* cmd.user.mod or cmd.user.name == cmd.room.name (cmd.name is "spin": the
\* callback is registered for that command only)
SenderMaySpin(mod, isBroadcaster) == mod \/ isBroadcaster

\* the body of the /eventsub handler for one payload; the handler reads the
\* parsed body only, no header and no signature
EventsubBody(challenge, stype, bits) ==
    /\ submitted < MaxTriggers
    /\ IF challenge
          THEN UNCHANGED queueVars
          ELSE IF stype = "channel.cheer" /\ CheerValid(bits)
                  THEN Submit(TRUE)
                  ELSE UNCHANGED queueVars
    /\ UNCHANGED <<connVars, procVars, timeVars, regVars>>

\* the body of the callback for the command 'spin'; the chat client, started
\* with threading.Thread(target=chat.start), runs it off the server's loop
OnSpinMessageBody(mod, isBroadcaster) ==
    /\ submitted < MaxTriggers
    /\ IF SenderMaySpin(mod, isBroadcaster)
          THEN Submit(FALSE)
          ELSE UNCHANGED queueVars
    /\ UNCHANGED <<connVars, procVars, timeVars, regVars>>

\* POST /eventsub
eventsub ==
    \E challenge \in BOOLEAN, stype \in {"channel.cheer", "channel.follow"},
       bits \in BitsValues :
        /\ EventsubBody(challenge, stype, bits)
        /\ UNCHANGED srcVars

\* a chat listener's callback for the command 'spin' runs
on_spin_message ==
    \E mod \in BOOLEAN, isBroadcaster \in BOOLEAN :
        /\ listeners > 0
        /\ OnSpinMessageBody(mod, isBroadcaster)
        /\ UNCHANGED srcVars

\* ---- the connection handler ws_spin --------------------------------------
\* handles are given out in order of connection
NextHandle(c) == \A d \in Conns : d < c => hpc[d] # "new"

\* await ws.accept(); clients.add(ws); the handler then waits in receive_text
Connect(c) ==
    /\ hpc[c] = "new"
    /\ NextHandle(c)
    /\ hpc' = [hpc EXCEPT ![c] = "recv"]
    /\ writable' = [writable EXCEPT ![c] = TRUE]
    /\ clients' = add(clients, c)
    /\ lateJoin' = lateJoin \cup {c}
    /\ UNCHANGED <<lastExit, removeCount, removeErr, queueVars, procVars, timeVars, regVars, srcVars>>

\* the peer closes or the network drops the connection: nothing of the
\* program runs, the transport only stops being writable
TransportBreak(c) ==
    /\ hpc[c] \in {"recv", "ack"}
    /\ writable[c]
    /\ writable' = [writable EXCEPT ![c] = FALSE]
    /\ UNCHANGED <<clients, hpc, lastExit, removeCount, removeErr, lateJoin,
                   queueVars, procVars, timeVars, regVars, srcVars>>

\* texts a client may send
ClientTexts == {"spin", "hello"}

\* a handler that takes the text "spin" of a client as a command
TextIsTrigger_SpinCommand(msg) == msg = "spin"

\* the handler never looks at msg: no text of a client is a trigger
TextIsTrigger(msg) == FALSE

\* msg = await ws.receive_text() returns a text frame of the client
ReceiveText(c) ==
    /\ hpc[c] = "recv"
    /\ writable[c]
    /\ hpc' = [hpc EXCEPT ![c] = "ack"]
    /\ \E msg \in ClientTexts :
          IF TextIsTrigger(msg) /\ submitted < MaxTriggers
             THEN Submit(TRUE)
             ELSE UNCHANGED queueVars
    /\ UNCHANGED <<clients, writable, lastExit, removeCount, removeErr, lateJoin,
                   procVars, timeVars, regVars, srcVars>>

\* await ws.send_text("ack") returns; back to receive_text
SendAck(c) ==
    /\ hpc[c] = "ack"
    /\ writable[c]
    /\ hpc' = [hpc EXCEPT ![c] = "recv"]
    /\ UNCHANGED <<clients, writable, lastExit, removeCount, removeErr, lateJoin,
                   queueVars, procVars, timeVars, regVars, srcVars>>

\* the removal placed in the except clause instead of the finally clause
CleanupRuns_OnlyDisconnect(path) == path = "disconnect"

\* which exits of the protected block run clients.remove(ws): the removal is
\* in the finally clause, so all of them
CleanupRuns(path) == TRUE

\* the protected block is left by way `path`; the finally clause removes the
\* handle and the handler ends (the server then closes the transport)
HandlerExit(c, path) ==
    /\ hpc' = [hpc EXCEPT ![c] = "done"]
    /\ writable' = [writable EXCEPT ![c] = FALSE]
    /\ lastExit' = [conn |-> c, path |-> path]
    /\ IF CleanupRuns(path)
          THEN /\ clients' = remove(clients, c).set
               /\ removeErr' = (removeErr \/ remove(clients, c).err)
               /\ removeCount' = [removeCount EXCEPT ![c] = @ + 1]
          ELSE UNCHANGED <<clients, removeErr, removeCount>>
    /\ UNCHANGED <<lateJoin, queueVars, procVars, timeVars, regVars, srcVars>>

\* receive_text raises WebSocketDisconnect (caught by the except clause)
ReceiveDisconnect(c) ==
    /\ hpc[c] = "recv"
    /\ ~writable[c]
    /\ HandlerExit(c, "disconnect")

\* receive_text raises another exception (a frame that is not text)
ReceiveError(c) ==
    /\ hpc[c] = "recv"
    /\ writable[c]
    /\ HandlerExit(c, "recv_error")

\* send_text("ack") raises on a transport that is no longer writable
SendAckFail(c) ==
    /\ hpc[c] = "ack"
    /\ ~writable[c]
    /\ HandlerExit(c, "ack_error")

\* ---- the spin processor ---------------------------------------------------
\* [ws.send_text("spin") for ws in clients]: the sends are built once, from
\* the registry as it is when the trigger has been taken
Snapshot(R) == R

\* the sleep placed inside the branch that broadcasts
AfterTake_SleepOnlyWithClients(R) ==
    IF R # {} THEN [pc |-> "broadcast", sleep |-> 0]
              ELSE [pc |-> "cooldown", sleep |-> 0]

\* the sends created and not awaited: the sleep starts at once
AfterTake_SendsNotAwaited(R) == [pc |-> "cooldown", sleep |-> SleepSeconds]

\* where the processor goes once it holds a trigger: with clients it awaits
\* the gather of the sends; with none it logs and goes straight to sleep(9)
AfterTake(R) ==
    IF R # {} THEN [pc |-> "broadcast", sleep |-> 0]
              ELSE [pc |-> "cooldown", sleep |-> SleepSeconds]

\* await spin_queue.get() returns the oldest trigger; the sends are created
\* (or, with no client, the sleep is started) before anything else runs
Take ==
    /\ pc = "idle"
    /\ queue # <<>>
    /\ ~getterWaiting
    /\ queue' = Tail(queue)
    /\ served' = Append(served, Head(queue).id)
    /\ snapshot' = Snapshot(clients)
    /\ pending' = Snapshot(clients)
    /\ spinGot' = [c \in Conns |-> 0]
    /\ sendFailed' = {}
    /\ lateJoin' = {}
    /\ sinceTake' = 0
    /\ pc' = AfterTake(clients).pc
    /\ sleepLeft' = AfterTake(clients).sleep
    /\ UNCHANGED <<clients, hpc, writable, lastExit, removeCount, removeErr,
                   unfinished, submitted, getterWaiting, spinsDone,
                   regVars, srcVars>>

\* the registry read again at every send instead of once
SendTargets_Live ==
    IF pc = "broadcast"
       THEN pending \cup {c \in clients : spinGot[c] = 0 /\ c \notin sendFailed}
       ELSE pending

\* the connections a send of the current broadcast may still go to
SendTargets == pending

\* a gather that cancels the other sends when one raises
GatherOnError_CancelRest(pend, c) == {}

\* asyncio.gather without return_exceptions: when a send raises, the sends
\* to the other connections are not cancelled and go on
GatherOnError(pend, c) == pend \ {c}

\* a processor that discards the connection whose send raised
AfterSendFailure_Discard(R, c) == R \ {c}

\* the registry after a send to c raised: the processor has no handler for
\* the exception and never writes to clients
AfterSendFailure(R, c) == R

\* one ws.send_text("spin") of the broadcast returns or raises
SendSpin(c) ==
    /\ c \in SendTargets
    /\ IF writable[c]
          THEN /\ spinGot' = [spinGot EXCEPT ![c] = @ + 1]
               /\ pending' = pending \ {c}
               /\ UNCHANGED <<sendFailed, clients>>
               \* gather returns when the last send has returned
               /\ IF pc = "broadcast" /\ pending' = {}
                     THEN pc' = "cooldown" /\ sleepLeft' = SleepSeconds
                     ELSE UNCHANGED <<pc, sleepLeft>>
          ELSE /\ sendFailed' = sendFailed \cup {c}
               /\ clients' = AfterSendFailure(clients, c)
               /\ pending' = GatherOnError(pending, c)
               /\ UNCHANGED <<spinGot, sleepLeft>>
               \* the exception leaves gather and the while loop: the task ends
               /\ pc' = IF pc = "broadcast" THEN "dead" ELSE pc
    /\ UNCHANGED <<hpc, writable, lastExit, removeCount, removeErr, lateJoin,
                   queueVars, snapshot, served, spinsDone, sinceTake,
                   regVars, srcVars>>

\* the sleep not awaited: the loop goes on at once
CooldownEnd_NoWait ==
    /\ pc = "cooldown"
    /\ pc' = "idle"
    /\ unfinished' = unfinished - 1
    /\ spinsDone' = spinsDone + 1
    /\ getterWaiting' = (queue = <<>>)
    /\ UNCHANGED <<connVars, queue, submitted, snapshot, pending, spinGot,
                   sendFailed, served, timeVars, regVars, srcVars>>

\* asyncio.sleep(9) returns; spin_queue.task_done(); back to spin_queue.get(),
\* which suspends the processor when the queue is empty
CooldownEnd ==
    /\ pc = "cooldown"
    /\ sleepLeft = 0
    /\ pc' = "idle"
    /\ unfinished' = unfinished - 1
    /\ spinsDone' = spinsDone + 1
    /\ getterWaiting' = (queue = <<>>)
    /\ UNCHANGED <<connVars, queue, submitted, snapshot, pending, spinGot,
                   sendFailed, served, timeVars, regVars, srcVars>>

\* the server's loop runs its scheduled callbacks for another reason (I/O, a
\* timer): a processor whose getter was resolved from another thread resumes
LoopWakes ==
    /\ getterWaiting
    /\ queue # <<>>
    /\ getterWaiting' = FALSE
    /\ UNCHANGED <<queue, unfinished, submitted, connVars, procVars, timeVars,
                   regVars, srcVars>>

\* one unit of time passes; the time since the last take is followed while
\* there has been a take and the processor runs, and a broadcast lasts no
\* longer than MaxSendDelay
Tick ==
    /\ pc = "broadcast" => sinceTake < MaxSendDelay
    /\ sleepLeft' = Max(sleepLeft - 1, 0)
    /\ sinceTake' = IF served = <<>> \/ pc = "dead"
                       THEN sinceTake
                       ELSE Min(sinceTake + 1, TimeCap)
    /\ UNCHANGED <<connVars, queueVars, procVars, regVars, srcVars>>

Next ==
    \/ eventsub
    \/ on_spin_message
    \/ \E c \in Conns : Connect(c)
    \/ \E c \in Conns : TransportBreak(c)
    \/ \E c \in Conns : ReceiveText(c)
    \/ \E c \in Conns : SendAck(c)
    \/ \E c \in Conns : ReceiveDisconnect(c)
    \/ \E c \in Conns : ReceiveError(c)
    \/ \E c \in Conns : SendAckFail(c)
    \/ Take
    \/ \E c \in Conns : SendSpin(c)
    \/ CooldownEnd
    \/ LoopWakes
    \/ Tick

Spec == Init /\ [][Next]_vars

\* the event loop runs every task that can run, and time passes
FairSpec ==
    /\ Spec
    /\ WF_vars(Take)
    /\ \A c \in Conns : WF_vars(SendSpin(c))
    /\ WF_vars(CooldownEnd)
    /\ WF_vars(LoopWakes)
    /\ WF_vars(Tick)

TypeOK ==
    /\ clients \subseteq Conns
    /\ pc \in {"idle", "broadcast", "cooldown", "dead"}
    /\ sleepLeft \in 0..SleepSeconds
    /\ sinceTake \in 0..TimeCap
    /\ Len(queue) <= MaxTriggers

\* ---- the registry operations on their own --------------------------------
\* add and remove applied to any registry and any handle
RegStart ==
    /\ PipelineInit
    /\ listeners = 1 /\ chatCmd = NoCmd /\ lastEvent = NoEvent
    /\ reg \in SUBSET Handles
    /\ regBefore = reg
    /\ regOp = "none"
    /\ regHandle = 0
    /\ regErr = FALSE
    /\ regCalls = 0

\* clients.add(ws)
RegAdd(h) ==
    /\ regCalls < MaxRegCalls
    /\ reg' = add(reg, h)
    /\ regBefore' = reg
    /\ regOp' = "add"
    /\ regHandle' = h
    /\ regErr' = FALSE
    /\ regCalls' = regCalls + 1
    /\ UNCHANGED pipelineVars

\* clients.remove(ws)
RegRemove(h) ==
    /\ regCalls < MaxRegCalls
    /\ reg' = remove(reg, h).set
    /\ regBefore' = reg
    /\ regOp' = "remove"
    /\ regHandle' = h
    /\ regErr' = remove(reg, h).err
    /\ regCalls' = regCalls + 1
    /\ UNCHANGED pipelineVars

RegNext ==
    \/ \E h \in Handles : RegAdd(h)
    \/ \E h \in Handles : RegRemove(h)

SpecRegistry == RegStart /\ [][RegNext]_vars

\* ---- the trigger sources with their events observed ------------------------
\* at startup a listener is started when a token file is found
SourcesInit ==
    /\ PipelineInit
    /\ reg = {} /\ regBefore = {} /\ regOp = "none" /\ regHandle = 0
    /\ regErr = FALSE /\ regCalls = 0
    /\ listeners \in {0, 1}
    /\ chatCmd = NoCmd
    /\ lastEvent = NoEvent

\* POST /eventsub with any payload, signed by Twitch or not
EventsubRequest ==
    \E signed \in BOOLEAN, challenge \in BOOLEAN,
       stype \in {"channel.cheer", "channel.follow"}, bits \in BitsValues :
        /\ EventsubBody(challenge, stype, bits)
        /\ lastEvent' = [kind |-> "eventsub", signed |-> signed,
                         challenge |-> challenge, stype |-> stype,
                         bits |-> bits, enq |-> Len(queue') - Len(queue)]
        /\ UNCHANGED <<listeners, chatCmd>>

\* a user sends !spin in the chat room: every running listener receives it
ChatCommand ==
    \E mod \in BOOLEAN, isBroadcaster \in BOOLEAN :
        /\ chatCmd.left = 0
        /\ submitted < MaxTriggers
        /\ chatCmd' = [mod |-> mod, isBroadcaster |-> isBroadcaster,
                       heard |-> listeners, left |-> listeners, enq |-> 0]
        /\ UNCHANGED <<connVars, queueVars, procVars, timeVars, regVars,
                       listeners, lastEvent>>

\* one listener runs on_spin_message for the command
ChatDeliver ==
    /\ chatCmd.left > 0
    /\ OnSpinMessageBody(chatCmd.mod, chatCmd.isBroadcaster)
    /\ chatCmd' = [chatCmd EXCEPT !.left = @ - 1,
                                  !.enq = @ + Len(queue') - Len(queue)]
    /\ UNCHANGED <<listeners, lastEvent>>

\* GET /callback: with a code and the right state the tokens are fetched and
\* _setup_twitch runs again, which starts one more chat listener
callback ==
    \E ok \in BOOLEAN :
        /\ listeners < MaxListeners
        /\ listeners' = IF ok THEN listeners + 1 ELSE listeners
        /\ UNCHANGED <<connVars, queueVars, procVars, timeVars, regVars,
                       chatCmd, lastEvent>>

SourcesNext ==
    \/ EventsubRequest
    \/ ChatCommand
    \/ ChatDeliver
    \/ callback
    \/ Take
    \/ CooldownEnd
    \/ LoopWakes
    \/ Tick

SpecSources == SourcesInit /\ [][SourcesNext]_vars

\* ---- properties ------------------------------------------------------------
Spinning == pc \in {"broadcast", "cooldown"}
InFlight == unfinished - Len(queue)
IsPrefix(p, q) == Len(p) <= Len(q) /\ \A i \in 1..Len(p) : p[i] = q[i]
TakeStep == Len(served') > Len(served)

\* C1: every submitted trigger is eventually taken by the processor, exactly
\* once and in the order of submission (the n-th spin is for the n-th
\* trigger), whatever the clients do.
C1_EveryTriggerServedInOrder ==
    /\ [](\A i \in 1..Len(served) : served[i] = i)
    /\ \A n \in 1..MaxTriggers :
          (submitted >= n) ~> (Len(served) >= n /\ served[n] = n)

\* C2: at most one trigger is in flight, and the processor takes a trigger
\* only from Idle, with no send of the previous spin outstanding, and (for
\* every take after the first) no less than the cooldown of 9 time units
\* after the previous take.
C2_OneInFlightAndCooldown ==
    /\ [](InFlight \in {0, 1} /\ (pc = "idle" => InFlight = 0))
    /\ [][TakeStep =>
            /\ pc = "idle" /\ pending = {} /\ sleepLeft = 0
            /\ spinsDone = Len(served)
            /\ (served # <<>> => sinceTake >= 9)]_vars

C2_Witness ==
    /\ Len(served) = 2 /\ sinceTake = 0 /\ Spinning /\ queue # <<>>

\* C3: a failed send to one connection does not end the spin processor.
C3_SendFailureNotFatal ==
    sendFailed # {} => pc \in {"idle", "broadcast", "cooldown"}

\* C4: while the processor is Spinning, every submit appends its trigger to
\* the queue, nothing leaves the queue, and Spinning is left for Idle only
\* when the cooldown has run out.
C4_QueuedWhileSpinning ==
    [][Spinning =>
        /\ IsPrefix(queue, queue')
        /\ (submitted' # submitted =>
               /\ Len(queue') = Len(queue) + 1
               /\ queue'[Len(queue')].id = submitted')
        /\ (pc' = "idle" => sleepLeft = 0 /\ pending = {})]_vars

C4_Witness ==
    /\ pc = "cooldown" /\ sleepLeft > 0 /\ Len(queue) = 2
    /\ queue[1].busy /\ queue[2].busy

\* C5: in every spin, no connection gets more than one "spin", and once all
\* sends have returned every connection of the snapshot whose own send did
\* not fail has got exactly one, also when another send of the spin failed.
C5_HealthyGetExactlyOne ==
    /\ \A c \in Conns : spinGot[c] <= 1 /\ (spinGot[c] = 1 => c \in snapshot)
    /\ pending = {} => \A c \in snapshot \ sendFailed : spinGot[c] = 1

C5_Witness ==
    /\ pending = {} /\ sendFailed # {}
    /\ \E c \in snapshot : spinGot[c] = 1

\* C6: a connection registered after a spin's snapshot gets no "spin" of that
\* spin, and the snapshot of the next spin holds every such connection that
\* is still registered.
C6_SnapshotAtSpinStart ==
    /\ [](\A c \in lateJoin : spinGot[c] = 0 /\ c \notin snapshot)
    /\ [][TakeStep =>
            /\ (lateJoin \cap clients) \subseteq snapshot'
            /\ pending' = snapshot']_vars

C6_Witness ==
    /\ pc = "cooldown" /\ lateJoin \cap clients # {}
    /\ \E d \in snapshot : spinGot[d] = 1

\* C7: after a "spin" send to a connection has failed, the processor is still
\* running and the connection is no longer in the registry.
C7_FailedSendDeregisters ==
    \A c \in sendFailed : pc # "dead" /\ c \notin clients

\* closures the program has detected: a failed "spin" send, or the handler
\* leaving its receive loop
Detected == sendFailed \cup {c \in Conns : hpc[c] = "done"}

\* C8: the registry holds exactly the accepted connections none of whose
\* closures has been detected, and no handle is removed twice.
C8_RegistryIffWritable ==
    \A c \in Conns :
        /\ c \in clients <=> (hpc[c] # "new" /\ c \notin Detected)
        /\ removeCount[c] <= 1

\* C9: removing a handle that is absent raises no error and leaves the
\* registry as it was (so removing twice is the same as removing once).
C9_RemoveIdempotent ==
    (regOp = "remove" /\ regHandle \notin regBefore) =>
        (~regErr /\ reg = regBefore)

\* C10: once the handler of a registered connection has ended, by whatever
\* exit, the connection is not in the registry.
C10_RemovedOnEveryExit ==
    \A c \in Conns : hpc[c] = "done" => (c \notin clients /\ removeCount[c] = 1)

C10_Witness ==
    /\ lastExit.path = "ack_error" /\ lastExit.conn \notin clients
    /\ \E c \in Conns : c # lastExit.conn /\ hpc[c] = "done"

\* C11: a trigger taken with an empty registry starts no send and goes
\* straight to a sleep of the full 9 units; a spin without sends ends in
\* Idle only after that sleep, and with no client ever connected every
\* spin completes without an error.
C11_EmptyRegistrySpin ==
    /\ [][(TakeStep /\ clients = {}) =>
            (pending' = {} /\ pc' = "cooldown" /\ sleepLeft' = 9)]_vars
    /\ [][(pc = "cooldown" /\ snapshot = {} /\ pc' = "idle") =>
            (sleepLeft = 0 /\ sinceTake >= 9 /\ spinsDone' = spinsDone + 1
             /\ sendFailed = {} /\ \A c \in Conns : spinGot[c] = 0)]_vars
    /\ []((\A c \in Conns : hpc[c] = "new") =>
            (pc # "dead" /\ pending = {} /\ sendFailed = {}
             /\ (pc = "idle" => spinsDone = Len(served))))

C11_Witness ==
    /\ \A c \in Conns : hpc[c] = "new"
    /\ spinsDone = 3 /\ pc = "idle" /\ sinceTake >= 9

\* the last event is a cheer notification of exactly the threshold amount
ThresholdCheer ==
    /\ lastEvent.kind = "eventsub" /\ ~lastEvent.challenge
    /\ lastEvent.stype = "channel.cheer" /\ lastEvent.bits = BIT_SPIN_AMOUNT

\* a listener has just run its callback for the chat command
DeliverStep == chatCmd'.left < chatCmd.left

\* C12: a webhook event appends a trigger exactly when it is a cheer of the
\* threshold amount, a run of the chat callback appends one exactly when
\* the sender is a moderator or the broadcaster, and nothing else appends.
C12_EnqueuedIffValid ==
    /\ [](lastEvent.kind = "eventsub" =>
            (lastEvent.enq = (IF ThresholdCheer THEN 1 ELSE 0)))
    /\ [][DeliverStep =>
            IF chatCmd.mod \/ chatCmd.isBroadcaster
               THEN Len(queue') = Len(queue) + 1 /\ IsPrefix(queue, queue')
               ELSE queue' = queue]_vars
    /\ [][submitted' # submitted =>
            \/ DeliverStep /\ (chatCmd.mod \/ chatCmd.isBroadcaster)
            \/ ~DeliverStep /\ ThresholdCheer' /\ lastEvent'.enq = 1]_vars

C12_Witness ==
    /\ lastEvent.kind = "eventsub" /\ lastEvent.stype = "channel.cheer"
    /\ ~lastEvent.challenge /\ lastEvent.bits = BIT_SPIN_AMOUNT + 1
    /\ lastEvent.enq = 0
    /\ submitted = 2 /\ chatCmd.heard = 1 /\ chatCmd.left = 0

\* C13: a webhook request without a good signature appends no trigger.
C13_UnsignedNeverEnqueues ==
    (lastEvent.kind = "eventsub" /\ ~lastEvent.signed) => lastEvent.enq = 0

\* C14: a threshold cheer, and a !spin of a moderator or the broadcaster that
\* the listeners have finished handling, has appended exactly one trigger.
C14_OneTriggerPerRequest ==
    /\ ThresholdCheer => lastEvent.enq = 1
    /\ (/\ chatCmd.heard >= 1 /\ chatCmd.left = 0
        /\ (chatCmd.mod \/ chatCmd.isBroadcaster)) => chatCmd.enq = 1

\* C15: submits from the server's loop and from the chat client's thread
\* leave the queue holding exactly the triggers not yet taken, in the order
\* of submission, and an idle processor is never left suspended while the
\* queue holds a trigger.
C15_ConcurrentSubmitSafe ==
    /\ Len(queue) = submitted - Len(served)
    /\ \A i \in 1..Len(queue) : queue[i].id = Len(served) + i
    /\ (pc = "idle" /\ queue # <<>>) => ~getterWaiting

\* a step of a handler between receive_text and the send of "ack"
TextStep ==
    \E c \in Conns : /\ hpc[c] \in {"recv", "ack"}
                     /\ hpc'[c] \in {"recv", "ack"}
                     /\ hpc'[c] # hpc[c]

\* C16: the spins started never outnumber the triggers submitted; in each
\* spin a connection receives at most one "spin", and only if it was
\* registered when the trigger was taken; a "spin" is received only by a
\* connection the current broadcast still has to send to; a text of a client
\* and its "ack" change neither the queue nor any broadcast.
C16_NoSpuriousSpins ==
    /\ [](Len(served) <= submitted)
    /\ [](\A c \in Conns : spinGot[c] <= (IF c \in snapshot THEN 1 ELSE 0))
    /\ [][\A c \in Conns : spinGot'[c] > spinGot[c] =>
              (served # <<>> /\ ~TakeStep /\ c \in pending /\ c \notin pending')]_vars
    /\ [][TextStep => /\ queue' = queue /\ submitted' = submitted
                      /\ served' = served /\ spinGot' = spinGot
                      /\ pending' = pending /\ pc' = pc]_vars

C16_Witness ==
    \E c \in Conns : /\ hpc[c] = "ack"
                     /\ spinGot[c] = 1
                     /\ Len(served) = 2
                     /\ submitted = 2

\* C17: clients.remove(ws) of the finally clause never raises: a handler
\* inside its protected block has its connection in the registry, a
\* connection leaves the registry only in the step in which its own handler
\* ends, and each handler removes once.
C17_CleanupRemoveNeverFails ==
    /\ [](~removeErr)
    /\ [](\A c \in Conns : hpc[c] \in {"recv", "ack"} => c \in clients)
    /\ [][\A c \in clients \ clients' :
              /\ hpc[c] \in {"recv", "ack"}
              /\ hpc'[c] = "done"
              /\ removeCount'[c] = removeCount[c] + 1]_vars
    /\ [](\A c \in Conns : removeCount[c] <= 1)

\* a handler ended through the finally clause after a send of a broadcast
\* to its connection had raised
C17_Witness ==
    \E c \in sendFailed : /\ hpc[c] = "done"
                          /\ removeCount[c] = 1
                          /\ c \notin clients
                          /\ ~removeErr

\* C18: the sleep of a spin starts in the step in which the last send of its
\* broadcast returns, and not before: while the processor sleeps no send of
\* the snapshot is outstanding and every connection of the snapshot has its
\* "spin"; the sleep starts at 9 and the time since the take grows as the
\* sleep runs down, so the processor is back at get() no sooner than the
\* time the sends took plus 9.
C18_CooldownAfterAllSends ==
    /\ [](pc = "cooldown" =>
            /\ pending = {} /\ sendFailed = {}
            /\ \A c \in snapshot : spinGot[c] = 1)
    /\ [][(pc # "cooldown" /\ pc' = "cooldown") =>
            /\ sleepLeft' = SleepSeconds
            /\ pending' = {}
            /\ sinceTake' = sinceTake \/ TakeStep
            /\ (snapshot' # {} => pc = "broadcast" /\ pending # {})]_vars
    /\ [](pc = "cooldown" /\ sleepLeft > 0 =>
            sinceTake + sleepLeft \in SleepSeconds..(MaxSendDelay + SleepSeconds))
    /\ [][(pc = "cooldown" /\ pc' = "cooldown" /\ sleepLeft > 0) =>
            sinceTake' + sleepLeft' = sinceTake + sleepLeft]_vars
    /\ [][(pc = "cooldown" /\ pc' = "idle") =>
            sleepLeft = 0 /\ sinceTake >= SleepSeconds]_vars

\* a spin to two connections whose slowest send took the longest time a send
\* may take, one unit before the end of its sleep
C18_Witness ==
    /\ pc = "cooldown"
    /\ Cardinality(snapshot) = 2
    /\ sleepLeft = 1
    /\ sinceTake = MaxSendDelay + SleepSeconds - 1

====
